---------------------------- MODULE Spec2Model ----------------------------
(***************************************************************************)
(* The note-playback engine of tauri-piano-sequencer: the startup choice   *)
(* of a backend (lib.rs run), the sample backend (sample_player.rs: index, *)
(* LRU cache, nearest-sample selection) and the facade commands of lib.rs  *)
(* over the sample backend and the synthesizer backend (audio.rs).         *)
(*                                                                         *)
(* Volumes are in tenths (0.8 is 8), durations and times in milliseconds.   *)
(* Decoded PCM data is the string                                           *)
(* "pcm:<file name>": two loads return identical data exactly when they    *)
(* decoded the same file.                                                  *)
(***************************************************************************)
EXTENDS Integers, Sequences, FiniteSets, TLC

VARIABLES
    audio_device,       \* the host has an audio output device that opens
    dir_exists,         \* the samples directory exists on disk
    files,              \* names of the files in the samples directory
    corrupt,            \* files that rodio's Decoder rejects
    audio_player,       \* AppState.audio_player: the backend variant
    sample_paths,       \* SamplePlayer.sample_paths: key -> file name
    index_order,        \* iteration order of sample_paths.keys()
    indexed_count,      \* index_samples' indexed_count
    sample_cache,       \* SamplePlayer.sample_cache, most recently used first
    sample_volume,      \* SamplePlayer.volume
    engine_volume,      \* AudioEngine.volume
    engine_sound_mode,  \* AudioEngine.sound_mode
    engine_lock,        \* owner of the Mutex<AudioEngine> (0: free)
    call,               \* per caller: the command in progress and its locals
    accessed,           \* history: keys by last cache access, latest first
    voices,             \* number of detached sinks that are still playing
    probe,              \* inputs and results of the velocity-layer function
    selection,          \* inputs and result of the nearest-sample selection
    envelope,           \* inputs and results of the envelope function
    melody,             \* the generate_melody_with_retry call in progress
    key_store           \* api_keys.json, and the results of the key manager

vars == <<audio_device, dir_exists, files, corrupt, audio_player, sample_paths, index_order,
          indexed_count, sample_cache, sample_volume, engine_volume,
          engine_sound_mode, engine_lock, call, accessed, voices,
          probe, selection, envelope, melody, key_store>>

env_vars == <<audio_device, dir_exists, files, corrupt>>
sample_vars == <<sample_paths, index_order, indexed_count, sample_volume>>
engine_vars == <<engine_volume, engine_sound_mode>>
probe_vars == <<probe, selection, envelope>>
ai_vars == <<melody, key_store>>

-----------------------------------------------------------------------------
(* Bounds of the model *)

\* Capacity of the sample cache.  The program builds the cache with 100
\* entries (LruCache::new(NonZeroUsize::new(100))); the model keeps the same
\* cache with a small capacity so that insertions past capacity happen.
CacheCapacity == 2

\* Voices that play at the same time.  The program sets no limit; the model
\* starts a voice only while fewer than MaxVoices are playing.
MaxVoices == 1


-----------------------------------------------------------------------------
(* Program constants *)

U8Max == 255
MidiVelocityMax == 127
FirstIndexedPitch == 21
LastIndexedPitch == 108
I16Max == 32767
SampleVolume0 == 8
EngineVolume0 == 8
GainScale == 1600
SampleRate == 44100

Min(a, b) == IF a < b THEN a ELSE b
Max(a, b) == IF a > b THEN a ELSE b
Abs(a) == IF a < 0 THEN -a ELSE a

-----------------------------------------------------------------------------
(* Inputs *)

\* File names that may be present in the samples directory.
FileNames == {"C4v8.wav", "C4_v8.wav", "D4v8.wav", "E4_v4.wav"}

\* Files that may hold data the decoder rejects.
CorruptibleNames == {"D4v8.wav"}

\* The concurrent callers of the facade commands.
Callers == {1, 2}

\* Arguments of playNote.
Pitches == {60, 61, 64}
Velocities == {32, 64}

\* Note durations in milliseconds (the command takes seconds as f32).
Durations == {1000}

\* Arguments of setVolume (tenths) and setMode.
VolumeArgs == {-5, 5, 15}
ModeArgs == {"piano", "synthesizer", "organ"}

-----------------------------------------------------------------------------
(* Frequency/velocity math and file names (sample_player.rs) *)

note_names == <<"C", "C#", "D", "D#", "E", "F", "F#", "G", "G#", "A", "A#", "B">>

\* midi_to_note_name: 60 -> "C4", 61 -> "C#4"
midi_to_note_name(pitch) ==
    note_names[(pitch % 12) + 1] \o ToString((pitch \div 12) - 1)

\* A mutant of velocity_to_sample_layer: the lower clamp is missing.
velocity_to_sample_layer_noclamp(velocity) ==
    Min((velocity * 16) \div 128, 16)

\* velocity_to_sample_layer: ((velocity as u16 * 16) / 128).max(1).min(16)
velocity_to_sample_layer(velocity) ==
    Min(Max((velocity * 16) \div 128, 1), 16)

velocity_priorities == <<8, 12, 4, 16, 6, 10, 14, 2, 1, 3, 5, 7, 9, 11, 13, 15>>

\* The two file name patterns tried for a note and a velocity layer, in order.
possible_names(note_name, sample_velocity) ==
    << note_name \o "v" \o ToString(sample_velocity) \o ".wav",
       note_name \o "_v" \o ToString(sample_velocity) \o ".wav" >>

\* A mutant of first_existing: the last of the names that exists.
first_existing_last(names, fs) ==
    LET found == {i \in 1..Len(names) : names[i] \in fs}
    IN  IF found = {} THEN ""
        ELSE names[CHOOSE i \in found : \A j \in found : i >= j]

\* The inner loop of index_samples: the first of the names that exists ("" if
\* none does).
first_existing(names, fs) ==
    LET found == {i \in 1..Len(names) : names[i] \in fs}
    IN  IF found = {} THEN ""
        ELSE names[CHOOSE i \in found : \A j \in found : i <= j]

\* The loop over velocity_priorities for one pitch, from position i on: the
\* insertions it makes, in order, each a [key, path].
RECURSIVE index_layers(_, _, _)
index_layers(midi_pitch, i, fs) ==
    IF i > Len(velocity_priorities) THEN <<>>
    ELSE LET sample_velocity == velocity_priorities[i]
             name == first_existing(
                         possible_names(midi_to_note_name(midi_pitch),
                                        sample_velocity), fs)
             rest == index_layers(midi_pitch, i + 1, fs)
         IN  IF name = "" THEN rest
             ELSE <<[key |-> <<midi_pitch, sample_velocity>>, path |-> name]>>
                  \o rest

\* The loop over midi_pitch in first..=last: all insertions, in order (the
\* range is halved to keep the evaluation shallow; the order is the loop's).
RECURSIVE index_pitches(_, _, _)
index_pitches(first, last, fs) ==
    IF first > last THEN <<>>
    ELSE IF first = last THEN index_layers(first, 1, fs)
    ELSE LET mid == (first + last) \div 2
         IN  index_pitches(first, mid, fs) \o index_pitches(mid + 1, last, fs)

EmptyPaths == [k \in {} |-> ""]

\* The HashMap after sample_paths.insert(key, path) for each insertion in
\* order: a later insertion of a key replaces the earlier one.
inserted_paths(insertions) ==
    [k \in {insertions[i].key : i \in 1..Len(insertions)} |->
        LET last == CHOOSE i \in 1..Len(insertions) :
                        /\ insertions[i].key = k
                        /\ \A j \in 1..Len(insertions) :
                               insertions[j].key = k => j <= i
        IN  insertions[last].path]

\* index_samples: Err when the directory is missing or nothing was indexed;
\* indexed_count counts the insertions.
index_samples(exists, fs) ==
    IF ~exists
    THEN [ok |-> FALSE, paths |-> EmptyPaths, count |-> 0,
          err |-> "Samples directory not found"]
    ELSE LET insertions == index_pitches(FirstIndexedPitch, LastIndexedPitch, fs)
             indexed == Len(insertions)
         IN  IF indexed = 0
             THEN [ok |-> FALSE, paths |-> EmptyPaths, count |-> 0,
                   err |-> "No piano samples found"]
             ELSE [ok |-> TRUE, paths |-> inserted_paths(insertions),
                   count |-> indexed, err |-> ""]

-----------------------------------------------------------------------------
(* Nearest-sample selection (sample_player.rs, find_closest_sample_key) *)

\* A mutant of total_distance: pitch and velocity weigh the same.
total_distance_unweighted(pitch, velocity, sample_key) ==
    Abs(pitch - sample_key[1]) + Abs(velocity - sample_key[2])

\* total_distance = pitch_distance * 4 + velocity_distance (i16; the largest
\* value, 255 * 4 + 254, is far below i16::MAX)
total_distance(pitch, velocity, sample_key) ==
    Abs(pitch - sample_key[1]) * 4 + Abs(velocity - sample_key[2])

\* A mutant of scan_keys: a key of equal distance replaces the candidate.
RECURSIVE scan_keys_last_wins(_, _, _, _, _, _)
scan_keys_last_wins(order, i, pitch, velocity, best_key, min_distance) ==
    IF i > Len(order) THEN best_key
    ELSE LET d == total_distance(pitch, velocity, order[i])
         IN  IF d <= min_distance
             THEN scan_keys_last_wins(order, i + 1, pitch, velocity,
                                      order[i], d)
             ELSE scan_keys_last_wins(order, i + 1, pitch, velocity,
                                      best_key, min_distance)

\* The for loop over sample_paths.keys(): a key replaces the candidate only
\* when its distance is strictly smaller.
RECURSIVE scan_keys(_, _, _, _, _, _)
scan_keys(order, i, pitch, velocity, best_key, min_distance) ==
    IF i > Len(order) THEN best_key
    ELSE LET d == total_distance(pitch, velocity, order[i])
         IN  IF d < min_distance
             THEN scan_keys(order, i + 1, pitch, velocity, order[i], d)
             ELSE scan_keys(order, i + 1, pitch, velocity, best_key, min_distance)

NoKey == <<0, 0>>

\* A mutant of find_closest_sample_key: the exact-match test is missing.
find_closest_sample_key_scan_only(paths, order, pitch, velocity) ==
    IF DOMAIN paths = {}
    THEN [ok |-> FALSE, key |-> NoKey, scanned |-> FALSE,
          err |-> "No samples indexed"]
    ELSE [ok |-> TRUE, scanned |-> TRUE, err |-> "",
          key |-> scan_keys(order, 1, pitch, velocity, order[1], I16Max)]

\* find_closest_sample_key: scanned tells whether the nearest-neighbour loop ran.
find_closest_sample_key(paths, order, pitch, velocity) ==
    IF DOMAIN paths = {}
    THEN [ok |-> FALSE, key |-> NoKey, scanned |-> FALSE,
          err |-> "No samples indexed"]
    ELSE IF <<pitch, velocity>> \in DOMAIN paths
    THEN [ok |-> TRUE, key |-> <<pitch, velocity>>, scanned |-> FALSE,
          err |-> ""]
    ELSE [ok |-> TRUE, scanned |-> TRUE, err |-> "",
          key |-> scan_keys(order, 1, pitch, velocity, order[1], I16Max)]

-----------------------------------------------------------------------------
(* The LRU cache (lru::LruCache as used by load_sample_on_demand): a        *)
(* sequence of [key, samples], most recently used first.                    *)

Without(seq, i) == SubSeq(seq, 1, i - 1) \o SubSeq(seq, i + 1, Len(seq))

Position(seq, key) ==
    IF \E i \in 1..Len(seq) : seq[i].key = key
    THEN CHOOSE i \in 1..Len(seq) : seq[i].key = key
    ELSE 0

CachedKeys(cache) == {cache[i].key : i \in 1..Len(cache)}

\* A mutant of lru_get: a hit does not refresh the entry (peek).
lru_get_peek(cache, key) ==
    LET i == Position(cache, key)
    IN  IF i = 0 THEN [hit |-> FALSE, samples |-> "", cache |-> cache]
        ELSE [hit |-> TRUE, samples |-> cache[i].samples, cache |-> cache]

\* A mutant of lru_get: the lookup never finds the key.
lru_get_miss(cache, key) ==
    [hit |-> FALSE, samples |-> "", cache |-> cache]

\* A mutant of lru_get: only the most recently used entry is found.
lru_get_front(cache, key) ==
    IF Len(cache) > 0 /\ cache[1].key = key
    THEN [hit |-> TRUE, samples |-> cache[1].samples, cache |-> cache]
    ELSE [hit |-> FALSE, samples |-> "", cache |-> cache]

\* cache.get(&key): a hit moves the entry to the most-recently-used end.
lru_get(cache, key) ==
    LET i == Position(cache, key)
    IN  IF i = 0 THEN [hit |-> FALSE, samples |-> "", cache |-> cache]
        ELSE [hit |-> TRUE, samples |-> cache[i].samples,
              cache |-> <<cache[i]>> \o Without(cache, i)]

\* A mutant of lru_put: a full cache keeps growing.
lru_put_unbounded(cache, key, samples) ==
    LET i == Position(cache, key)
        entry == [key |-> key, samples |-> samples]
    IN  IF i # 0 THEN <<entry>> \o Without(cache, i)
        ELSE <<entry>> \o cache

\* A mutant of lru_put: a present key gets a second entry.
lru_put_duplicate(cache, key, samples) ==
    LET entry == [key |-> key, samples |-> samples]
    IN  IF Len(cache) >= CacheCapacity
        THEN <<entry>> \o SubSeq(cache, 1, Len(cache) - 1)
        ELSE <<entry>> \o cache

\* A mutant of lru_put: the entry is stored under the pitch above the key's.
lru_put_next_pitch(cache, key, samples) ==
    LET stored == <<key[1] + 1, key[2]>>
        i == Position(cache, stored)
        entry == [key |-> stored, samples |-> samples]
    IN  IF i # 0 THEN <<entry>> \o Without(cache, i)
        ELSE IF Len(cache) >= CacheCapacity
        THEN <<entry>> \o SubSeq(cache, 1, Len(cache) - 1)
        ELSE <<entry>> \o cache

\* cache.put(key, samples): a present key is updated and refreshed; a new key
\* in a full cache first discards the least recently used entry.
lru_put(cache, key, samples) ==
    LET i == Position(cache, key)
        entry == [key |-> key, samples |-> samples]
    IN  IF i # 0 THEN <<entry>> \o Without(cache, i)
        ELSE IF Len(cache) >= CacheCapacity
        THEN <<entry>> \o SubSeq(cache, 1, Len(cache) - 1)
        ELSE <<entry>> \o cache

\* The history of cache accesses: a hit or an insertion of the key moves it
\* to the front, with the data that access returned.
Touch(history, key, samples) ==
    LET i == Position(history, key)
        entry == [key |-> key, samples |-> samples]
    IN  IF i # 0 THEN <<entry>> \o Without(history, i)
        ELSE <<entry>> \o history

\* Decoder::new(BufReader::new(file)) and convert_samples().collect()
decode_file(path) == "pcm:" \o path

-----------------------------------------------------------------------------
(* State *)

IdleCall ==
    [pc |-> "idle", op |-> "", pitch |-> 0, duration |-> 0, velocity |-> 0,
     volume |-> 0, mode |-> "", target_velocity |-> 0, key |-> NoKey,
     scanned |-> FALSE, samples |-> "", from_cache |-> FALSE,
     semitone_diff |-> 0, velocity_factor |-> 0,
     env_mode |-> "", snap_volume |-> 0, snap_mode |-> "",
     total_samples |-> 0,
     ok |-> FALSE, ret |-> ""]

\* A command that has returned: Ok(ret) or Err(ret).
Returned(c, ok, ret) == [c EXCEPT !.pc = "done", !.ok = ok, !.ret = ret]

NoSelection == [ok |-> FALSE, key |-> NoKey, scanned |-> FALSE, err |-> ""]

IdleSelection ==
    [paths |-> EmptyPaths, order |-> <<>>, pitch |-> 0, velocity |-> 0,
     result |-> NoSelection, applied |-> FALSE]

IdleEnvelope ==
    [mode |-> "Piano", duration |-> 0, t |-> 0, amp |-> 0,
     applied |-> FALSE]

NoScale == [some |-> FALSE, root |-> "", mode |-> ""]

IdleMelody ==
    [pc |-> "idle", provider |-> "", measures |-> 0, scale |-> NoScale,
     response |-> <<>>, validation_error |-> "", calls |-> 0,
     ok |-> FALSE, err |-> "", result |-> <<>>]

NoKeys == [p \in {} |-> ""]

IdleKeyStore ==
    [keys |-> NoKeys, saved |-> NoKeys, op |-> "", provider |-> "",
     ok |-> FALSE, some |-> FALSE, value |-> "", listed |-> {}]

IdleProbe == [v1 |-> 0, v2 |-> 0, layer1 |-> 0, layer2 |-> 0, applied |-> FALSE]

\* The orders in which a HashMap with these keys may iterate.
Orders(keys) ==
    {o \in [1..Cardinality(keys) -> keys] :
        \A i, j \in 1..Cardinality(keys) : i # j => o[i] # o[j]}

\* Before run(): no backend yet; the samples directory is any subset of
\* FileNames, or missing.
Init ==
    /\ audio_device \in BOOLEAN
    /\ dir_exists \in BOOLEAN
    /\ files \in SUBSET FileNames
    /\ ~dir_exists => files = {}
    /\ corrupt \in SUBSET (files \cap CorruptibleNames)
    /\ audio_player = "Uninitialized"
    /\ sample_paths = EmptyPaths
    /\ index_order = <<>>
    /\ indexed_count = 0
    /\ sample_cache = <<>>
    /\ sample_volume = SampleVolume0
    /\ engine_volume = EngineVolume0
    /\ engine_sound_mode = "Piano"
    /\ engine_lock = 0
    /\ call = [t \in Callers |-> IdleCall]
    /\ accessed = <<>>
    /\ voices = 0
    /\ probe = IdleProbe
    /\ selection = IdleSelection
    /\ envelope = IdleEnvelope
    /\ melody = IdleMelody
    /\ key_store = IdleKeyStore

-----------------------------------------------------------------------------
(* Startup (lib.rs run, SamplePlayer::new, AudioEngine::new) *)

\* A mutant of SamplePlayerNew: an index without entries is accepted.
SamplePlayerNew_accept_empty(stream_ok) ==
    IF ~stream_ok
    THEN [ok |-> FALSE, paths |-> EmptyPaths, count |-> 0,
          err |-> "Failed to create audio stream"]
    ELSE LET r == index_samples(dir_exists, files)
         IN  [r EXCEPT !.ok = dir_exists]

\* SamplePlayer::new: the output stream is opened first, then the directory is
\* indexed; either failure fails the construction.
SamplePlayerNew(stream_ok) ==
    IF ~stream_ok
    THEN [ok |-> FALSE, paths |-> EmptyPaths, count |-> 0,
          err |-> "Failed to create audio stream"]
    ELSE index_samples(dir_exists, files)

\* OutputStream::try_default(): Ok exactly when the host's device opens.
try_default == audio_device

\* AudioEngine::new: fails only when the output stream cannot be opened.
AudioEngineNew(stream_ok) == stream_ok

\* run(): SamplePlayer::new() first; on Err, AudioEngine::new(), whose failure
\* panics (expect) before any command can be served.
Startup ==
    /\ audio_player = "Uninitialized"
    /\ LET r == SamplePlayerNew(try_default)
       IN  /\ indexed_count' = r.count
           /\ \/ /\ r.ok
                 /\ audio_player' = "Samples"
                 /\ sample_paths' = r.paths
                 /\ index_order' \in Orders(DOMAIN r.paths)
              \/ /\ ~r.ok
                 /\ AudioEngineNew(try_default)
                 /\ audio_player' = "Synthesized"
                 /\ UNCHANGED <<sample_paths, index_order>>
              \/ /\ ~r.ok
                 /\ ~AudioEngineNew(try_default)
                 /\ audio_player' = "Panicked"
                 /\ UNCHANGED <<sample_paths, index_order>>
    /\ UNCHANGED <<env_vars, sample_cache, sample_volume, engine_vars,
                   engine_lock, call, accessed, probe_vars, ai_vars, voices>>

-----------------------------------------------------------------------------
(* Facade commands (lib.rs) and the sample backend's play_note              *)

Running == audio_player \in {"Samples", "Synthesized"}

Begin(t, op) == [IdleCall EXCEPT !.op = op]

\* The other variables of a step that changes call alone.
OnlyCall ==
    UNCHANGED <<env_vars, audio_player, sample_vars, sample_cache,
                engine_vars, engine_lock, accessed, probe_vars, ai_vars, voices>>

\* play_note (lib.rs) and, on the sample backend, the head of
\* SamplePlayer::play_note: the velocity layer and the closest indexed key.
\* On the synthesizer backend the caller goes for the engine's mutex.
play_note(t, pitch, duration, velocity) ==
    /\ Running
    /\ call[t].pc = "idle"
    /\ LET c == [Begin(t, "play_note") EXCEPT !.pitch = pitch,
                                              !.duration = duration,
                                              !.velocity = velocity]
       IN  \/ /\ audio_player = "Samples"
              /\ LET target == velocity_to_sample_layer(velocity)
                     r == find_closest_sample_key(sample_paths, index_order,
                                                  pitch, target)
                     d == [c EXCEPT !.target_velocity = target,
                                    !.key = r.key, !.scanned = r.scanned]
                 IN  call' = [call EXCEPT ![t] =
                                 IF r.ok THEN [d EXCEPT !.pc = "cache_check"]
                                 ELSE Returned(d, FALSE, r.err)]
           \/ /\ audio_player = "Synthesized"
              /\ call' = [call EXCEPT ![t] = [c EXCEPT !.pc = "lock"]]
    /\ OnlyCall

\* load_sample_on_demand, first critical section: cache.get(&key).
load_cache_check(t) ==
    /\ call[t].pc = "cache_check"
    /\ LET r == lru_get(sample_cache, call[t].key)
       IN  /\ sample_cache' = r.cache
           /\ \/ /\ r.hit
                 /\ call' = [call EXCEPT ![t].pc = "play",
                                         ![t].samples = r.samples,
                                         ![t].from_cache = TRUE]
                 /\ accessed' = Touch(accessed, call[t].key, r.samples)
              \/ /\ ~r.hit
                 /\ call' = [call EXCEPT ![t].pc = "decode"]
                 /\ UNCHANGED accessed
    /\ UNCHANGED <<env_vars, audio_player, sample_vars, engine_vars,
                   engine_lock, probe_vars, ai_vars,
                   voices>>

\* A mutant of load_from_disk: a file the decoder rejects yields data.
load_from_disk_lenient(key) ==
    IF key \notin DOMAIN sample_paths
    THEN [ok |-> FALSE, samples |-> "", err |-> "Sample not found"]
    ELSE [ok |-> TRUE, samples |-> decode_file(sample_paths[key]), err |-> ""]

\* load_sample_on_demand between the critical sections: the path of the key,
\* File::open and the decoder.
load_from_disk(key) ==
    IF key \notin DOMAIN sample_paths
    THEN [ok |-> FALSE, samples |-> "", err |-> "Sample not found"]
    ELSE IF sample_paths[key] \notin files
    THEN [ok |-> FALSE, samples |-> "", err |-> "Failed to open file"]
    ELSE IF sample_paths[key] \in corrupt
    THEN [ok |-> FALSE, samples |-> "", err |-> "Failed to decode audio file"]
    ELSE [ok |-> TRUE, samples |-> decode_file(sample_paths[key]), err |-> ""]

\* The decode step of a caller, outside the cache's lock.
load_decode(t) ==
    /\ call[t].pc = "decode"
    /\ LET r == load_from_disk(call[t].key)
       IN  call' = [call EXCEPT ![t] =
                       IF r.ok THEN [call[t] EXCEPT !.pc = "cache_put",
                                                    !.samples = r.samples]
                       ELSE Returned(call[t], FALSE, r.err)]
    /\ OnlyCall

\* load_sample_on_demand, second critical section: cache.put(key, samples).
load_cache_put(t) ==
    /\ call[t].pc = "cache_put"
    /\ sample_cache' = lru_put(sample_cache, call[t].key, call[t].samples)
    /\ accessed' = Touch(accessed, call[t].key, call[t].samples)
    /\ call' = [call EXCEPT ![t].pc = "play"]
    /\ UNCHANGED <<env_vars, audio_player, sample_vars, engine_vars,
                   engine_lock, probe_vars, ai_vars, voices>>

\* A mutant of semitone_diff: the difference is taken the other way round.
semitone_diff_reversed(pitch, closest_pitch) == closest_pitch - pitch

\* pitch as f32 - closest_pitch as f32; the pitch ratio is 2^(diff / 12).
semitone_diff(pitch, closest_pitch) == pitch - closest_pitch

\* velocity_factor, in units of 1 / GainScale.  With the volume in tenths and
\* velocity_diff = d / 16, volume * (1.0 + velocity_diff * 0.3) is
\* volume * (160 + 3 * d) / 1600, clamped to [0.1, 1.0]; on the exact layer the
\* factor is the volume itself.
velocity_factor(volume, target_velocity, closest_velocity) ==
    IF closest_velocity = target_velocity
    THEN volume * (GainScale \div 10)
    ELSE Min(Max(volume * ((GainScale \div 10)
                           + 3 * (target_velocity - closest_velocity)),
                 GainScale \div 10),
             GainScale)

\* A duration (in milliseconds) that stands for the f32 values of 2^64
\* seconds and more: their sample count saturates the cast to usize, and
\* they overflow a std::time::Duration.
HugeDuration == 2000000000

\* std::time::Duration::from_secs_f32 panics on a negative value and on one
\* that overflows the Duration.
duration_from_secs(duration) ==
    [panics |-> duration < 0 \/ duration >= HugeDuration]

\* The rest of SamplePlayer::play_note: pitch shift and gain of the voice, the
\* limit of its duration, the sink.  Sink::try_new fails only once the
\* OutputStream is gone, and AppState keeps it for the life of the process.
sample_play(t) ==
    /\ call[t].pc = "play"
    /\ LET c == call[t]
           voice == [c EXCEPT
                        !.semitone_diff = semitone_diff(c.pitch, c.key[1]),
                        !.velocity_factor =
                            velocity_factor(sample_volume, c.target_velocity,
                                            c.key[2])]
       IN  IF duration_from_secs(c.duration).panics
           THEN /\ call' = [call EXCEPT ![t] = [voice EXCEPT !.pc = "panicked"]]
                /\ UNCHANGED voices
           ELSE /\ voices < MaxVoices
                /\ voices' = voices + 1
                /\ call' = [call EXCEPT ![t] = Returned(voice, TRUE, "")]
    /\ UNCHANGED <<env_vars, audio_player, sample_vars, sample_cache,
                   engine_vars, engine_lock, accessed, probe_vars, ai_vars>>

\* A mutant of stop_all_notes: the sample backend silences its voices.
stop_all_notes_silences(t) ==
    /\ Running
    /\ call[t].pc = "idle"
    /\ LET c == Begin(t, "stop_all_notes")
       IN  \/ /\ audio_player = "Samples"
              /\ call' = [call EXCEPT ![t] = Returned(c, TRUE, "")]
              /\ voices' = 0
           \/ /\ audio_player = "Synthesized"
              /\ call' = [call EXCEPT ![t] = [c EXCEPT !.pc = "lock"]]
              /\ UNCHANGED voices
    /\ UNCHANGED <<env_vars, audio_player, sample_vars, sample_cache,
                   engine_vars, engine_lock, accessed, probe_vars, ai_vars>>

\* stop_all_notes (lib.rs): Ok at once on the sample backend.
stop_all_notes(t) ==
    /\ Running
    /\ call[t].pc = "idle"
    /\ LET c == Begin(t, "stop_all_notes")
       IN  \/ /\ audio_player = "Samples"
              /\ call' = [call EXCEPT ![t] = Returned(c, TRUE, "")]
           \/ /\ audio_player = "Synthesized"
              /\ call' = [call EXCEPT ![t] = [c EXCEPT !.pc = "lock"]]
    /\ OnlyCall

\* A mutant of set_volume: the sample backend stores the clamped volume.
set_volume_stores(t, volume) ==
    /\ Running
    /\ call[t].pc = "idle"
    /\ LET c == [Begin(t, "set_volume") EXCEPT !.volume = volume]
       IN  \/ /\ audio_player = "Samples"
              /\ call' = [call EXCEPT ![t] = Returned(c, TRUE, "")]
              /\ sample_volume' = Min(Max(volume, 0), 10)
           \/ /\ audio_player = "Synthesized"
              /\ call' = [call EXCEPT ![t] = [c EXCEPT !.pc = "lock"]]
              /\ UNCHANGED sample_volume
    /\ UNCHANGED <<env_vars, audio_player, sample_paths, index_order,
                   indexed_count, sample_cache, engine_vars, engine_lock,
                   accessed, probe_vars, ai_vars,
                   voices>>

\* set_volume (lib.rs): an error on the sample backend.
set_volume(t, volume) ==
    /\ Running
    /\ call[t].pc = "idle"
    /\ LET c == [Begin(t, "set_volume") EXCEPT !.volume = volume]
       IN  \/ /\ audio_player = "Samples"
              /\ call' = [call EXCEPT ![t] = Returned(c, FALSE,
                     "Volume control not supported for sample playback")]
           \/ /\ audio_player = "Synthesized"
              /\ call' = [call EXCEPT ![t] = [c EXCEPT !.pc = "lock"]]
    /\ OnlyCall

\* A mutant of set_sound_mode: a valid mode on the sample backend switches the
\* player to the synthesizer.
set_sound_mode_swaps(t, mode) ==
    /\ Running
    /\ call[t].pc = "idle"
    /\ LET c == [Begin(t, "set_sound_mode") EXCEPT !.mode = mode]
       IN  \/ /\ audio_player = "Samples"
              /\ call' = [call EXCEPT ![t] = Returned(c, TRUE, "")]
              /\ audio_player' = IF mode \in {"piano", "synthesizer"}
                                 THEN "Synthesized" ELSE audio_player
           \/ /\ audio_player = "Synthesized"
              /\ call' = [call EXCEPT ![t] = [c EXCEPT !.pc = "lock"]]
              /\ UNCHANGED audio_player
    /\ UNCHANGED <<env_vars, sample_vars, sample_cache, engine_vars,
                   engine_lock, accessed, probe_vars, ai_vars,
                   voices>>

\* set_sound_mode (lib.rs): an error on the sample backend, whatever the mode.
set_sound_mode(t, mode) ==
    /\ Running
    /\ call[t].pc = "idle"
    /\ LET c == [Begin(t, "set_sound_mode") EXCEPT !.mode = mode]
       IN  \/ /\ audio_player = "Samples"
              /\ call' = [call EXCEPT ![t] = Returned(c, FALSE,
                     "Cannot change sound mode when using samples")]
           \/ /\ audio_player = "Synthesized"
              /\ call' = [call EXCEPT ![t] = [c EXCEPT !.pc = "lock"]]
    /\ OnlyCall

\* get_sound_mode (lib.rs): "samples" on the sample backend.
get_sound_mode(t) ==
    /\ Running
    /\ call[t].pc = "idle"
    /\ LET c == Begin(t, "get_sound_mode")
       IN  \/ /\ audio_player = "Samples"
              /\ call' = [call EXCEPT ![t] = Returned(c, TRUE, "samples")]
           \/ /\ audio_player = "Synthesized"
              /\ call' = [call EXCEPT ![t] = [c EXCEPT !.pc = "lock"]]
    /\ OnlyCall

-----------------------------------------------------------------------------
(* The synthesizer backend behind its mutex (lib.rs, audio.rs)              *)

\* The state of the engine's mutex (engine_lock) after a holder panicked:
\* free, with the poison flag set.
Poisoned == -1

\* audio_engine.lock().unwrap(): the caller waits until the mutex is free;
\* lock() on a poisoned mutex returns Err and unwrap panics.
engine_lock_acquire(t) ==
    /\ call[t].pc = "lock"
    /\ IF engine_lock = Poisoned
       THEN /\ call' = [call EXCEPT ![t].pc = "panicked"]
            /\ UNCHANGED engine_lock
       ELSE /\ engine_lock = 0
            /\ engine_lock' = t
            /\ call' = [call EXCEPT ![t].pc = "locked"]
    /\ UNCHANGED <<env_vars, audio_player, sample_vars, sample_cache,
                   engine_vars, accessed, probe_vars, ai_vars,
                   voices>>

\* A mutant of clamp_volume: the volume is stored as given.
clamp_volume_unclamped(volume) == volume

\* AudioEngine::set_volume: volume.max(0.0).min(1.0)
clamp_volume(volume) == Min(Max(volume, 0), 10)

\* The mode strings of set_sound_mode and get_sound_mode.
mode_of_string(mode) ==
    IF mode = "piano" THEN "Piano"
    ELSE IF mode = "synthesizer" THEN "Synthesizer"
    ELSE "invalid"

\* A mutant of string_of_mode: every mode reads as "piano".
string_of_mode_piano(sound_mode) == "piano"

\* AudioEngine::get_sound_mode
string_of_mode(sound_mode) ==
    IF sound_mode = "Piano" THEN "piano" ELSE "synthesizer"

\* The envelope of a sound mode (the piano's in AudioEngine::play_note,
\* Envelope::default for the synthesizer): attack, decay and release in
\* milliseconds, sustain in tenths.
envelope_of(sound_mode) ==
    IF sound_mode = "Piano"
    THEN [attack |-> 2, decay |-> 300, sustain |-> 3, release |-> 500]
    ELSE [attack |-> 10, decay |-> 100, sustain |-> 7, release |-> 200]

\* (total_duration * sample_rate as f32) as usize: the cast of a negative
\* value gives 0.
total_samples(duration, env) ==
    Max(((duration + env.release) * SampleRate) \div 1000, 0)

\* Amplitudes are exact multiples of 1 / AmpUnit(env): AmpUnit(env) is 1.0.
AmpUnit(env) == 10 * env.attack * env.decay * env.release

\* t / envelope.attack
attack_amp(t, env) == 10 * env.decay * env.release * t

\* 1.0 - (1.0 - envelope.sustain) * ((t - envelope.attack) / envelope.decay)
decay_amp(t, env) ==
    AmpUnit(env) - (10 - env.sustain) * (t - env.attack)
                                      * env.attack * env.release

\* envelope.sustain
sustain_amp(env) == env.sustain * env.attack * env.decay * env.release

\* A mutant of release_amp: the release ramps down from 1.0.
release_amp_from_peak(t, duration, env) ==
    10 * env.attack * env.decay * Max(env.release - (t - duration), 0)

\* A mutant of release_amp: the ramp is not cut off at 0.
release_amp_unclamped(t, duration, env) ==
    env.sustain * env.attack * env.decay * (env.release - (t - duration))

\* envelope.sustain * (1.0 - (t - duration) / envelope.release).max(0.0)
release_amp(t, duration, env) ==
    env.sustain * env.attack * env.decay
                * Max(env.release - (t - duration), 0)

\* envelope_amp of AudioEngine::play_note at time t of a note.
envelope_amp(t, duration, env) ==
    IF t < env.attack THEN attack_amp(t, env)
    ELSE IF t < env.attack + env.decay THEN decay_amp(t, env)
    ELSE IF t < duration THEN sustain_amp(env)
    ELSE release_amp(t, duration, env)

\* AudioEngine::play_note, entered with the guard of lib.rs play_note in
\* scope: the envelope is chosen by a first read of self.sound_mode.
engine_envelope(t) ==
    /\ call[t].pc = "locked"
    /\ call[t].op = "play_note"
    /\ engine_lock = t
    /\ call' = [call EXCEPT ![t].pc = "envelope",
                            ![t].env_mode = engine_sound_mode]
    /\ UNCHANGED <<env_vars, audio_player, sample_vars, sample_cache,
                   engine_vars, engine_lock, accessed, probe_vars, ai_vars,
                   voices>>

\* AudioEngine::play_note, after the sample count: the locals volume and
\* sound_mode are read from self.
engine_snapshot(t) ==
    /\ call[t].pc = "envelope"
    /\ engine_lock = t
    /\ call' = [call EXCEPT ![t].pc = "synth",
                            ![t].snap_volume = engine_volume,
                            ![t].snap_mode = engine_sound_mode]
    /\ UNCHANGED <<env_vars, audio_player, sample_vars, sample_cache,
                   engine_vars, engine_lock, accessed, probe_vars, ai_vars,
                   voices>>

\* (0..total_samples).map(..).collect(): Vec::with_capacity panics with
\* "capacity overflow" when the samples take more than isize::MAX bytes.
collect_samples(duration, env) ==
    [panics |-> duration + env.release >= HugeDuration]

\* AudioEngine::play_note, second part: the samples of the whole note are
\* generated, the sink is created and detached; at the return to lib.rs
\* play_note the guard goes out of scope and the mutex is released.  A panic
\* unwinds through the guard, which poisons the mutex as it releases it.
engine_render(t) ==
    /\ call[t].pc = "synth"
    /\ engine_lock = t
    /\ LET c == call[t]
           env == envelope_of(c.env_mode)
       IN  IF collect_samples(c.duration, env).panics
           THEN /\ engine_lock' = Poisoned
                /\ call' = [call EXCEPT ![t].pc = "panicked"]
                /\ UNCHANGED voices
           ELSE /\ engine_lock' = 0
                /\ voices < MaxVoices
                /\ voices' = voices + 1
                /\ call' = [call EXCEPT ![t] =
                       Returned([c EXCEPT !.total_samples =
                                    total_samples(c.duration, env)],
                                TRUE, "")]
    /\ UNCHANGED <<env_vars, audio_player, sample_vars, sample_cache,
                   engine_vars, accessed, probe_vars, ai_vars>>

\* A mutant of engine_run: the command runs without waiting for the mutex.
engine_run_unguarded(t) ==
    /\ call[t].pc \in {"lock", "locked"}
    /\ engine_lock' = IF engine_lock = t THEN 0 ELSE engine_lock
    /\ LET c == call[t]
       IN  \/ /\ c.op = "stop_all_notes"
              /\ call' = [call EXCEPT ![t] = Returned(c, TRUE, "")]
              /\ UNCHANGED engine_vars
           \/ /\ c.op = "set_volume"
              /\ engine_volume' = clamp_volume(c.volume)
              /\ call' = [call EXCEPT ![t] = Returned(c, TRUE, "")]
              /\ UNCHANGED engine_sound_mode
           \/ /\ c.op = "set_sound_mode"
              /\ mode_of_string(c.mode) = "invalid"
              /\ call' = [call EXCEPT ![t] =
                             Returned(c, FALSE, "Invalid sound mode")]
              /\ UNCHANGED engine_vars
           \/ /\ c.op = "set_sound_mode"
              /\ mode_of_string(c.mode) # "invalid"
              /\ engine_sound_mode' = mode_of_string(c.mode)
              /\ call' = [call EXCEPT ![t] = Returned(c, TRUE, "")]
              /\ UNCHANGED engine_volume
           \/ /\ c.op = "get_sound_mode"
              /\ call' = [call EXCEPT ![t] =
                             Returned(c, TRUE, string_of_mode(engine_sound_mode))]
              /\ UNCHANGED engine_vars
    /\ UNCHANGED <<env_vars, audio_player, sample_vars, sample_cache,
                   accessed, probe_vars, ai_vars,
                   voices>>

\* The body of the other commands under the engine's mutex, and the release
\* of the mutex when the guard goes out of scope at the command's return.
engine_run(t) ==
    /\ call[t].pc = "locked"
    /\ engine_lock = t
    /\ engine_lock' = 0
    /\ LET c == call[t]
       IN  \/ /\ c.op = "stop_all_notes"
              /\ call' = [call EXCEPT ![t] = Returned(c, TRUE, "")]
              /\ UNCHANGED engine_vars
           \/ /\ c.op = "set_volume"
              /\ engine_volume' = clamp_volume(c.volume)
              /\ call' = [call EXCEPT ![t] = Returned(c, TRUE, "")]
              /\ UNCHANGED engine_sound_mode
           \/ /\ c.op = "set_sound_mode"
              /\ mode_of_string(c.mode) = "invalid"
              /\ call' = [call EXCEPT ![t] =
                             Returned(c, FALSE, "Invalid sound mode")]
              /\ UNCHANGED engine_vars
           \/ /\ c.op = "set_sound_mode"
              /\ mode_of_string(c.mode) # "invalid"
              /\ engine_sound_mode' = mode_of_string(c.mode)
              /\ call' = [call EXCEPT ![t] = Returned(c, TRUE, "")]
              /\ UNCHANGED engine_volume
           \/ /\ c.op = "get_sound_mode"
              /\ call' = [call EXCEPT ![t] =
                             Returned(c, TRUE, string_of_mode(engine_sound_mode))]
              /\ UNCHANGED engine_vars
    /\ UNCHANGED <<env_vars, audio_player, sample_vars, sample_cache,
                   accessed, probe_vars, ai_vars,
                   voices>>

\* A detached sink has played its source to the end.
voice_ends ==
    /\ voices > 0
    /\ voices' = voices - 1
    /\ UNCHANGED <<env_vars, audio_player, sample_vars, sample_cache,
                   engine_vars, engine_lock, call, accessed, probe_vars, ai_vars>>

\* The caller takes the command's result and is free for the next command.
command_return(t) ==
    /\ call[t].pc = "done"
    /\ call' = [call EXCEPT ![t] = IdleCall]
    /\ OnlyCall

-----------------------------------------------------------------------------
(* Specification of the engine *)

Next ==
    \/ Startup
    \/ voice_ends
    \/ \E t \in Callers :
         \/ \E pitch \in Pitches, duration \in Durations,
                velocity \in Velocities :
                play_note(t, pitch, duration, velocity)
         \/ load_cache_check(t)
         \/ load_decode(t)
         \/ load_cache_put(t)
         \/ sample_play(t)
         \/ stop_all_notes(t)
         \/ \E volume \in VolumeArgs : set_volume(t, volume)
         \/ \E mode \in ModeArgs : set_sound_mode(t, mode)
         \/ get_sound_mode(t)
         \/ engine_lock_acquire(t)
         \/ engine_envelope(t)
         \/ engine_snapshot(t)
         \/ engine_render(t)
         \/ engine_run(t)
         \/ command_return(t)

Spec == Init /\ [][Next]_vars

-----------------------------------------------------------------------------
(* Specification of the engine under fair scheduling: two callers, one      *)
(* request per kind, and durations that the backends cannot render.         *)

FairDurations == {1000, HugeDuration}

\* The steps of a command that caller t has issued.
Step(t) ==
    \/ load_cache_check(t)
    \/ load_decode(t)
    \/ load_cache_put(t)
    \/ sample_play(t)
    \/ engine_lock_acquire(t)
    \/ engine_envelope(t)
    \/ engine_snapshot(t)
    \/ engine_render(t)
    \/ engine_run(t)

InitFair ==
    /\ Init
    /\ audio_device
    /\ files \subseteq {"C4v8.wav"}
    /\ corrupt = {}

NextFair ==
    \/ Startup
    \/ voice_ends
    \/ \E t \in Callers :
         \/ \E duration \in FairDurations : play_note(t, 60, duration, 64)
         \/ stop_all_notes(t)
         \/ set_volume(t, 5)
         \/ set_sound_mode(t, "synthesizer")
         \/ get_sound_mode(t)
         \/ Step(t)
         \/ command_return(t)

\* The scheduler runs every thread that can take a step, a thread waiting
\* for the mutex obtains it once it is free often enough, and a sink plays
\* its finite source to the end.
Fairness ==
    /\ WF_vars(voice_ends)
    /\ \A t \in Callers : SF_vars(Step(t))

SpecFair == InitFair /\ [][NextFair]_vars /\ Fairness

-----------------------------------------------------------------------------
(* Specification of the velocity-layer function: it is applied to every     *)
(* pair of u8 velocities.                                                   *)

\* The engine before startup, with nothing in its directory: the state in
\* which the pure functions are applied to their inputs.
Dormant ==
    /\ audio_device = FALSE
    /\ dir_exists = FALSE
    /\ files = {}
    /\ corrupt = {}
    /\ audio_player = "Uninitialized"
    /\ sample_paths = EmptyPaths
    /\ index_order = <<>>
    /\ indexed_count = 0
    /\ sample_cache = <<>>
    /\ sample_volume = SampleVolume0
    /\ engine_volume = EngineVolume0
    /\ engine_sound_mode = "Piano"
    /\ engine_lock = 0
    /\ call = [t \in Callers |-> IdleCall]
    /\ accessed = <<>>
    /\ voices = 0
    /\ melody = IdleMelody
    /\ key_store = IdleKeyStore

InitLayer ==
    /\ Dormant
    /\ selection = IdleSelection
    /\ envelope = IdleEnvelope
    /\ probe \in {[IdleProbe EXCEPT !.v1 = a, !.v2 = b] :
                    a \in 0..U8Max, b \in 0..U8Max}

apply_layer ==
    /\ ~probe.applied
    /\ probe' = [probe EXCEPT !.layer1 = velocity_to_sample_layer(probe.v1),
                              !.layer2 = velocity_to_sample_layer(probe.v2),
                              !.applied = TRUE]
    /\ UNCHANGED <<env_vars, audio_player, sample_vars, sample_cache,
                   engine_vars, engine_lock, call, accessed, selection,
                   envelope, voices, ai_vars>>

NextLayer == apply_layer

SpecLayer == InitLayer /\ [][NextLayer]_vars

-----------------------------------------------------------------------------
(* Specification of the nearest-sample selection: find_closest_sample_key   *)
(* is applied to every index over SelectKeys, in every iteration order, and *)
(* to every request of SelectPitches and SelectLayers.                      *)

\* Keys an index may hold (pitch 21..108, layer 1..16).
SelectKeys == {<<21, 1>>, <<60, 8>>, <<62, 8>>, <<64, 4>>, <<108, 16>>}

\* Requested pitches (u8) and layers (results of velocity_to_sample_layer).
SelectPitches == {0, 21, 60, 61, 63, 109, 255}
SelectLayers == {1, 4, 8, 16}

\* The index that index_samples builds for a set of keys.
PathsOf(keys) ==
    [k \in keys |-> possible_names(midi_to_note_name(k[1]), k[2])[1]]

InitSelect ==
    /\ Dormant
    /\ probe = IdleProbe
    /\ envelope = IdleEnvelope
    /\ \E keys \in SUBSET SelectKeys :
       \E order \in Orders(keys) :
       \E pitch \in SelectPitches :
       \E velocity \in SelectLayers :
           selection = [IdleSelection EXCEPT !.paths = PathsOf(keys),
                                             !.order = order,
                                             !.pitch = pitch,
                                             !.velocity = velocity]

apply_select ==
    /\ ~selection.applied
    /\ selection' =
           [selection EXCEPT !.applied = TRUE,
                             !.result = find_closest_sample_key(
                                            selection.paths, selection.order,
                                            selection.pitch, selection.velocity)]
    /\ UNCHANGED <<env_vars, audio_player, sample_vars, sample_cache,
                   engine_vars, engine_lock, call, accessed, probe,
                   envelope, voices, ai_vars>>

NextSelect == apply_select

SpecSelect == InitSelect /\ [][NextSelect]_vars

-----------------------------------------------------------------------------
(* Specification of a single play_note: one caller, arguments inside and    *)
(* outside the ranges the interface names.                                  *)

SingleCaller == {1}
NotePitches == {0, 60, 200, 255}
NoteDurations == {-1000, 0, 1000}
NoteVelocities == {0, 64, 200, 255}

NextNote ==
    \/ Startup
    \/ voice_ends
    \/ \E t \in SingleCaller :
         \/ \E pitch \in NotePitches, duration \in NoteDurations,
                velocity \in NoteVelocities :
                play_note(t, pitch, duration, velocity)
         \/ load_cache_check(t)
         \/ load_decode(t)
         \/ load_cache_put(t)
         \/ sample_play(t)
         \/ engine_lock_acquire(t)
         \/ engine_envelope(t)
         \/ engine_snapshot(t)
         \/ engine_render(t)
         \/ command_return(t)

SpecNote == Init /\ [][NextNote]_vars

-----------------------------------------------------------------------------
(* Specification of the envelope function: envelope_amp is applied at every *)
(* millisecond of notes of EnvelopeDurations, in both sound modes.          *)

\* Note durations in milliseconds, shorter and longer than attack + decay.
EnvelopeDurations == {1, 50, 110, 111, 200, 302, 303, 500, 1000}

\* The last millisecond at which the envelope is evaluated.
MaxEnvelopeTime == 1500

InitEnvelope ==
    /\ Dormant
    /\ probe = IdleProbe
    /\ selection = IdleSelection
    /\ \E mode \in {"Piano", "Synthesizer"} :
       \E duration \in EnvelopeDurations :
       \E t \in 0..MaxEnvelopeTime :
           envelope = [IdleEnvelope EXCEPT !.mode = mode,
                                           !.duration = duration,
                                           !.t = t]

apply_envelope ==
    /\ ~envelope.applied
    /\ envelope' =
           [envelope EXCEPT !.applied = TRUE,
                            !.amp = envelope_amp(envelope.t, envelope.duration,
                                                 envelope_of(envelope.mode))]
    /\ UNCHANGED <<env_vars, audio_player, sample_vars, sample_cache,
                   engine_vars, engine_lock, call, accessed, probe, selection,
                   voices, ai_vars>>

NextEnvelope == apply_envelope

SpecEnvelope == InitEnvelope /\ [][NextEnvelope]_vars

-----------------------------------------------------------------------------
(* Melody generation with one retry (ai_client.rs, ai_models.rs).  Times    *)
(* of notes are in hundredths of a beat.                                    *)

MelodyNote(pitch, start_time, duration) ==
    [pitch |-> pitch, start_time |-> start_time, duration |-> duration,
     velocity |-> 64]

\* Notes a provider may answer with: valid ones, and one for each way of
\* failing the validation.
MelodyNotes ==
    { MelodyNote(60, 0, 100),       \* C4 on the first beat
      MelodyNote(62, 300, 100),     \* D4, ends with the first measure
      MelodyNote(61, 0, 100),       \* C#4
      MelodyNote(60, -100, 100),    \* negative start
      MelodyNote(60, 300, 200),     \* ends in the second measure
      MelodyNote(60, 0, 5),         \* shorter than 0.1 beats
      MelodyNote(200, 0, 100),      \* pitch above 127
      MelodyNote(60, 1700, 10) }    \* starts after 16 beats

\* The longest answer of a provider, in notes.
MaxNotes == 2

\* The answers of a provider that parse: sequences of notes.
MelodyResponses ==
    UNION {[1..n -> MelodyNotes] : n \in 0..MaxNotes}

MelodyMeasures == {1, 4}

MelodyScales ==
    { NoScale,
      [some |-> TRUE, root |-> "C", mode |-> "major"],
      [some |-> TRUE, root |-> "D", mode |-> "major"],
      [some |-> TRUE, root |-> "A", mode |-> "minor"] }

\* Providers: one with a client that calls its API and Cohere, whose client
\* returns an error without a call.
MelodyProviders == {"OpenAI", "Cohere"}

\* Scale::note_to_offset
note_to_offset(note) ==
    IF note = "C" THEN 0
    ELSE IF note \in {"C#", "DB"} THEN 1
    ELSE IF note = "D" THEN 2
    ELSE IF note \in {"D#", "EB"} THEN 3
    ELSE IF note = "E" THEN 4
    ELSE IF note = "F" THEN 5
    ELSE IF note \in {"F#", "GB"} THEN 6
    ELSE IF note = "G" THEN 7
    ELSE IF note \in {"G#", "AB"} THEN 8
    ELSE IF note = "A" THEN 9
    ELSE IF note \in {"A#", "BB"} THEN 10
    ELSE IF note = "B" THEN 11
    ELSE 0

\* The intervals of a mode in Scale::get_midi_notes.
scale_intervals(mode) ==
    IF mode = "minor" THEN {0, 2, 3, 5, 7, 8, 10}
    ELSE {0, 2, 4, 5, 7, 9, 11}

\* Scale::get_midi_notes: the notes of the scale in octaves 0..10, up to 127.
get_midi_notes(scale) ==
    {n \in 0..127 :
        \E octave \in 0..10, interval \in scale_intervals(scale.mode) :
            n = octave * 12 + note_to_offset(scale.root) + interval}

\* Note::validate (validator ranges): pitch and velocity 0..=127,
\* start_time >= 0.0, duration >= 0.01.
note_validate(note) ==
    /\ note.pitch <= 127
    /\ note.start_time >= 0
    /\ note.duration >= 1
    /\ note.velocity <= 127

\* MelodyResponse::validate_measure_bounds for one note.
note_in_bounds(note, max_beats) ==
    /\ ~(note.start_time < 0)
    /\ ~(note.start_time > max_beats)
    /\ ~(note.start_time + note.duration > max_beats)
    /\ ~(note.duration < 10)

\* MelodyResponse::validate_measure_bounds: (measures * 4) as f64 beats.
validate_measure_bounds(notes, measures) ==
    \A i \in 1..Len(notes) : note_in_bounds(notes[i], measures * 4 * 100)

\* MelodyResponse::validate_scale_constraints
validate_scale_constraints(notes, scale) ==
    \A i \in 1..Len(notes) : notes[i].pitch \in get_midi_notes(scale)

\* A mutant of validate_comprehensive: the scale is not looked at.
validate_comprehensive_any_scale(notes, measures, scale) ==
    IF \E i \in 1..Len(notes) : ~note_validate(notes[i])
    THEN [ok |-> FALSE, err |-> "Note validation failed"]
    ELSE IF ~validate_measure_bounds(notes, measures)
    THEN [ok |-> FALSE, err |-> "measure bounds"]
    ELSE IF Len(notes) = 0
    THEN [ok |-> FALSE, err |-> "No notes were generated"]
    ELSE [ok |-> TRUE, err |-> ""]

\* MelodyResponse::validate_comprehensive
validate_comprehensive(notes, measures, scale) ==
    IF \E i \in 1..Len(notes) : ~note_validate(notes[i])
    THEN [ok |-> FALSE, err |-> "Note validation failed"]
    ELSE IF ~validate_measure_bounds(notes, measures)
    THEN [ok |-> FALSE, err |-> "measure bounds"]
    ELSE IF scale.some /\ ~validate_scale_constraints(notes, scale)
    THEN [ok |-> FALSE, err |-> "notes are not in the scale"]
    ELSE IF Len(notes) = 0
    THEN [ok |-> FALSE, err |-> "No notes were generated"]
    ELSE [ok |-> TRUE, err |-> ""]

MelodyOnly ==
    UNCHANGED <<env_vars, audio_player, sample_vars, sample_cache,
                engine_vars, engine_lock, call, accessed, probe_vars, voices,
                key_store>>

\* generate_melody_with_retry is entered with a validated request.
generate_melody_with_retry(provider, measures, scale) ==
    /\ melody.pc = "idle"
    /\ melody' = [IdleMelody EXCEPT !.pc = "first", !.provider = provider,
                                    !.measures = measures, !.scale = scale]
    /\ MelodyOnly

\* The result of generate_melody_with_retry.
MelodyReturned(m, ok, err, result) ==
    [m EXCEPT !.pc = "done", !.ok = ok, !.err = err, !.result = result]

\* A mutant of first_call_error: an error of the first call goes on to the
\* retry.
first_call_error_retries(m, err) ==
    [m EXCEPT !.pc = "retry", !.validation_error = err]

\* self.generate_melody(request, api_key).await? with an Err.
first_call_error(m, err) == MelodyReturned(m, FALSE, err, <<>>)

\* The provider's API is called once by make_request; Cohere's client makes
\* no call.
provider_calls(provider) == IF provider = "Cohere" THEN 0 ELSE 1

\* First attempt: generate_melody.  The call fails (transport, status, parse)
\* or yields a response.
generate_melody ==
    /\ melody.pc = "first"
    /\ LET m == [melody EXCEPT !.calls = @ + provider_calls(melody.provider)]
       IN  \/ /\ melody.provider = "Cohere"
              /\ melody' = first_call_error(m,
                               "Cohere client not yet implemented")
           \/ /\ melody.provider # "Cohere"
              /\ melody' = first_call_error(m, "API error")
           \/ /\ melody.provider # "Cohere"
              /\ \E response \in MelodyResponses :
                    melody' = [m EXCEPT !.pc = "validate",
                                        !.response = response]
    /\ MelodyOnly

\* The match on response.validate_comprehensive(..) of the first attempt.
validate_first ==
    /\ melody.pc = "validate"
    /\ LET r == validate_comprehensive(melody.response, melody.measures,
                                       melody.scale)
       IN  melody' = IF r.ok
                     THEN MelodyReturned(melody, TRUE, "", melody.response)
                     ELSE [melody EXCEPT !.pc = "retry",
                                         !.validation_error = r.err]
    /\ MelodyOnly

\* Second attempt: generate_melody_retry with the validation error.
generate_melody_retry ==
    /\ melody.pc = "retry"
    /\ LET m == [melody EXCEPT !.calls = @ + provider_calls(melody.provider)]
       IN  \/ melody' = MelodyReturned(m, FALSE, "API error", <<>>)
           \/ \E response \in MelodyResponses :
                 melody' = [m EXCEPT !.pc = "validate_retry",
                                     !.response = response]
    /\ MelodyOnly

\* The validation of the retry's response: its failure is the error.
validate_retry ==
    /\ melody.pc = "validate_retry"
    /\ LET r == validate_comprehensive(melody.response, melody.measures,
                                       melody.scale)
       IN  melody' = IF r.ok
                     THEN MelodyReturned(melody, TRUE, "", melody.response)
                     ELSE MelodyReturned(melody, FALSE,
                              "Retry also failed validation", <<>>)
    /\ MelodyOnly

NextMelody ==
    \/ \E provider \in MelodyProviders, measures \in MelodyMeasures,
          scale \in MelodyScales :
          generate_melody_with_retry(provider, measures, scale)
    \/ generate_melody
    \/ validate_first
    \/ generate_melody_retry
    \/ validate_retry

InitMelody ==
    /\ Dormant
    /\ probe = IdleProbe
    /\ selection = IdleSelection
    /\ envelope = IdleEnvelope

SpecMelody == InitMelody /\ [][NextMelody]_vars

-----------------------------------------------------------------------------
(* The API key store (api_key_storage.rs): api_keys.json holds, by the      *)
(* provider's name, the key encrypted with AES-256-GCM under the manager's  *)
(* encryption key and a fresh nonce.  The commands of lib.rs run the        *)
(* manager's functions under its mutex, one at a time.                      *)

KeyProviders == {"OpenAI", "Gemini", "Anthropic", "Cohere"}
ApiKeys == {"sk-1", "sk-2"}
Nonces == {"n1", "n2"}

\* ApiKeyManager.encryption_key, read from the .key file or created once.
encryption_key == "machine-key"

\* A mutant of as_str: every provider is stored under one name.
as_str_openai(provider) == "openai"

\* AIProvider::as_str
as_str(provider) ==
    IF provider = "OpenAI" THEN "openai"
    ELSE IF provider = "Gemini" THEN "gemini"
    ELSE IF provider = "Anthropic" THEN "anthropic"
    ELSE "cohere"

\* AIProvider::from_str on a stored (lower-case) name; "" is None.
from_str(name) ==
    IF name = "openai" THEN "OpenAI"
    ELSE IF name = "gemini" THEN "Gemini"
    ELSE IF name = "anthropic" THEN "Anthropic"
    ELSE IF name = "cohere" THEN "Cohere"
    ELSE ""

\* BASE64_STANDARD.encode and decode
base64_encode(bytes) == [base64 |-> bytes]
base64_decode(text) == text.base64

\* Aes256Gcm encrypt: the ciphertext opens under the same key and nonce only.
aes_gcm_encrypt(key, nonce, plaintext) ==
    [key |-> key, nonce |-> nonce, plaintext |-> plaintext]

\* Aes256Gcm decrypt: the authentication tag is verified.
aes_gcm_decrypt(key, nonce, ciphertext) ==
    IF ciphertext.key = key /\ ciphertext.nonce = nonce
    THEN [ok |-> TRUE, plaintext |-> ciphertext.plaintext]
    ELSE [ok |-> FALSE, plaintext |-> ""]

\* ApiKeyManager::encrypt with the nonce that rng.gen() returned.
encrypt(nonce_bytes, plaintext) ==
    [ciphertext |-> base64_encode(aes_gcm_encrypt(encryption_key, nonce_bytes,
                                                  plaintext)),
     nonce |-> base64_encode(nonce_bytes)]

\* ApiKeyManager::decrypt
decrypt(encrypted) ==
    aes_gcm_decrypt(encryption_key, base64_decode(encrypted.nonce),
                    base64_decode(encrypted.ciphertext))

\* HashMap::insert and HashMap::remove on storage.keys
keys_insert(keys, name, encrypted) ==
    [n \in DOMAIN keys \cup {name} |->
        IF n = name THEN encrypted ELSE keys[n]]

keys_remove(keys, name) == [n \in DOMAIN keys \ {name} |-> keys[n]]

KeysOnly ==
    UNCHANGED <<env_vars, audio_player, sample_vars, sample_cache,
                engine_vars, engine_lock, call, accessed, probe_vars, voices,
                melody>>

\* ApiKeyManager::save_api_key: load_storage, encrypt, insert, save_storage.
save_api_key(provider, api_key, nonce_bytes) ==
    /\ key_store' =
           [key_store EXCEPT
               !.keys = keys_insert(@, as_str(provider),
                                    encrypt(nonce_bytes, api_key)),
               !.saved = keys_insert(@, provider, api_key),
               !.op = "save", !.provider = provider, !.ok = TRUE,
               !.some = FALSE, !.value = "", !.listed = {}]
    /\ KeysOnly

\* ApiKeyManager::get_api_key: Ok(Some(decrypted)), Ok(None), or the error
\* of decrypt.
get_api_key(provider) ==
    /\ LET name == as_str(provider)
           found == name \in DOMAIN key_store.keys
           r == IF found THEN decrypt(key_store.keys[name])
                ELSE [ok |-> TRUE, plaintext |-> ""]
       IN  key_store' =
               [key_store EXCEPT
                   !.op = "get", !.provider = provider, !.ok = r.ok,
                   !.some = found /\ r.ok, !.value = r.plaintext,
                   !.listed = {}]
    /\ KeysOnly

\* ApiKeyManager::delete_api_key: load_storage, remove, save_storage.
delete_api_key(provider) ==
    /\ key_store' =
           [key_store EXCEPT
               !.keys = keys_remove(@, as_str(provider)),
               !.saved = keys_remove(@, provider),
               !.op = "delete", !.provider = provider, !.ok = TRUE,
               !.some = FALSE, !.value = "", !.listed = {}]
    /\ KeysOnly

\* ApiKeyManager::list_configured_providers
list_configured_providers ==
    /\ key_store' =
           [key_store EXCEPT
               !.op = "list", !.provider = "", !.ok = TRUE,
               !.some = FALSE, !.value = "",
               !.listed = {from_str(n) : n \in DOMAIN key_store.keys}
                          \ {""}]
    /\ KeysOnly

NextKeys ==
    \/ \E provider \in KeyProviders, api_key \in ApiKeys,
          nonce_bytes \in Nonces :
          save_api_key(provider, api_key, nonce_bytes)
    \/ \E provider \in KeyProviders : get_api_key(provider)
    \/ \E provider \in KeyProviders : delete_api_key(provider)
    \/ list_configured_providers

InitKeys ==
    /\ Dormant
    /\ probe = IdleProbe
    /\ selection = IdleSelection
    /\ envelope = IdleEnvelope

SpecKeys == InitKeys /\ [][NextKeys]_vars

-----------------------------------------------------------------------------
(* Properties *)

\* A play_note command of caller t on the sample backend, past its head.
SamplePlayNote(t) ==
    /\ audio_player = "Samples"
    /\ call[t].op = "play_note"
    /\ call[t].pc # "idle"

\* The oldest entry of the cache by the history of accesses.
LeastRecentlyAccessed(cache, history) ==
    CHOOSE k \in CachedKeys(cache) :
        \A other \in CachedKeys(cache) :
            Position(history, other) <= Position(history, k)

\* The data under a key of a cache or of the history.
SamplesOf(seq, key) == seq[Position(seq, key)].samples

\* C1: the sample cache never holds more entries than its capacity, whatever
\* the play_note calls and their interleaving.
C1_CacheWithinCapacity ==
    Len(sample_cache) <= CacheCapacity

\* C1 witness: the cache is full after more distinct keys than its capacity
\* were inserted.
C1_Witness ==
    /\ Len(sample_cache) = CacheCapacity
    /\ Len(accessed) > CacheCapacity

\* C2: when cache.put inserts a key that is absent from a full cache, exactly
\* one entry leaves the cache, the one least recently accessed (by hit or
\* insertion), and every other entry stays with its data.
C2_EvictsLeastRecentlyAccessed ==
    [][\A t \in Callers :
          ( /\ call[t].pc = "cache_put"
            /\ call'[t].pc = "play"
            /\ call[t].key \notin CachedKeys(sample_cache)
            /\ Len(sample_cache) = CacheCapacity )
          => LET victim == LeastRecentlyAccessed(sample_cache, accessed)
             IN  /\ CachedKeys(sample_cache') =
                        (CachedKeys(sample_cache) \ {victim}) \cup {call[t].key}
                 /\ Len(sample_cache') = Len(sample_cache)
                 /\ \A k \in CachedKeys(sample_cache) \ {victim} :
                        SamplesOf(sample_cache', k) = SamplesOf(sample_cache, k)
      ]_vars

\* C2 witness: an insertion has evicted a key that had been accessed, after a
\* hit had refreshed another entry.
C2_Witness ==
    /\ Len(accessed) > CacheCapacity
    /\ \E t \in Callers : call[t].pc = "play" /\ ~call[t].from_cache
    /\ \E t \in Callers : call[t].pc = "play" /\ call[t].from_cache

\* C3: a load of a key that is still cached from an earlier load is served by
\* the cache, without the decode step, and returns the data that the earlier
\* access returned.
C3_SecondLoadFromCache ==
    [][\A t \in Callers :
          ( /\ call[t].pc = "cache_check"
            /\ call'[t].pc # "cache_check"
            /\ call[t].key \in CachedKeys(sample_cache) )
          => /\ call'[t].pc = "play"
             /\ call'[t].from_cache
             /\ call'[t].samples = SamplesOf(accessed, call[t].key)
             /\ call'[t].samples = SamplesOf(sample_cache', call[t].key)
      ]_vars

\* C3 witness: a load was served from the cache.
C3_Witness ==
    \E t \in Callers :
        /\ SamplePlayNote(t)
        /\ call[t].pc = "play"
        /\ call[t].from_cache
        /\ call[t].samples # ""

\* The distance of the selection rule: 4 * |pitch difference| + |layer
\* difference|.
WeightedDistance(pitch, layer, key) ==
    4 * Abs(pitch - key[1]) + Abs(layer - key[2])

\* The request of the selection is a key of its index.
RequestIndexed ==
    <<selection.pitch, selection.velocity>> \in DOMAIN selection.paths

\* C4: for a non-empty index, a request whose (pitch, layer) is a key of the
\* index resolves to exactly that key, at distance zero, without the
\* nearest-neighbour scan.
C4_ExactMatch ==
    (selection.applied /\ RequestIndexed)
    => /\ selection.result.ok
       /\ selection.result.key = <<selection.pitch, selection.velocity>>
       /\ WeightedDistance(selection.pitch, selection.velocity,
                           selection.result.key) = 0
       /\ ~selection.result.scanned

\* C4 witness: a request for an indexed key was resolved against an index
\* that holds other keys too.
C4_Witness ==
    /\ selection.applied
    /\ RequestIndexed
    /\ Cardinality(DOMAIN selection.paths) > 1
    /\ selection.order[1] # <<selection.pitch, selection.velocity>>

\* C5: for a non-empty index, a request whose (pitch, layer) is not indexed
\* resolves, without error, to an indexed key of minimal weighted distance;
\* the error "No samples indexed" is returned only for an empty index.
C5_NearestKey ==
    selection.applied =>
        /\ ~selection.result.ok =>
              /\ selection.result.err = "No samples indexed"
              /\ DOMAIN selection.paths = {}
        /\ (DOMAIN selection.paths # {} /\ ~RequestIndexed)
           => /\ selection.result.ok
              /\ selection.result.key \in DOMAIN selection.paths
              /\ \A k \in DOMAIN selection.paths :
                     WeightedDistance(selection.pitch, selection.velocity,
                                      selection.result.key)
                     <= WeightedDistance(selection.pitch, selection.velocity, k)

\* C5 witness: a request outside the index was resolved by the scan to a key
\* that is not the first of the iteration, with a farther key in the index.
C5_Witness ==
    /\ selection.applied
    /\ ~RequestIndexed
    /\ selection.result.ok
    /\ selection.result.scanned
    /\ selection.result.key # selection.order[1]
    /\ \E k \in DOMAIN selection.paths :
           WeightedDistance(selection.pitch, selection.velocity, k)
           > WeightedDistance(selection.pitch, selection.velocity,
                              selection.result.key)

\* C6: for velocities 0..127 the layer lies in 1..16, the layer does not
\* decrease when the velocity grows, and velocity 0 has layer 1.
C6_LayerRangeMonotone ==
    ( /\ probe.applied
      /\ probe.v1 <= MidiVelocityMax
      /\ probe.v2 <= MidiVelocityMax )
    => /\ probe.layer1 \in 1..16
       /\ probe.v1 <= probe.v2 => probe.layer1 <= probe.layer2
       /\ probe.v1 = 0 => probe.layer1 = 1

\* C6 witness: the function was applied to the velocities 0 and 127.
C6_Witness ==
    /\ probe.applied
    /\ probe.v1 = 0
    /\ probe.v2 = MidiVelocityMax
    /\ probe.layer1 < probe.layer2

\* C7: velocities map to layers in blocks of eight, 0-7 to 1, 8-15 to 2, up
\* to 120-127 to 16.
C7_BlocksOfEight ==
    (probe.applied /\ probe.v1 <= MidiVelocityMax)
    => probe.layer1 = (probe.v1 \div 8) + 1

\* The sample backend's construction succeeds: the stream opens, the
\* directory exists and at least one file was indexed.
ConstructionSucceeds ==
    audio_device /\ dir_exists /\ indexed_count > 0

\* What get_sound_mode has returned to the callers lies in modes.
GetModeReturns(modes) ==
    \A t \in Callers :
        (call[t].op = "get_sound_mode" /\ call[t].pc = "done")
        => call[t].ok /\ call[t].ret \in modes

\* C8 as stated: after startup the sample backend is active exactly when the
\* directory exists and a file was indexed, and the synthesizer backend is
\* active on a missing directory or zero indexed files.
C8_Original ==
    audio_player # "Uninitialized" =>
        /\ audio_player = "Samples" <=> (dir_exists /\ indexed_count > 0)
        /\ (~dir_exists \/ indexed_count = 0) => audio_player = "Synthesized"
        /\ audio_player = "Synthesized" => GetModeReturns({"piano", "synthesizer"})

\* C8 amended: the sample backend is active exactly when its construction
\* succeeded; otherwise the synthesizer backend is active when the engine's
\* output stream opened and startup has panicked when it did not; on the
\* synthesizer backend get_sound_mode returns "piano" or "synthesizer".
C8_Startup ==
    audio_player # "Uninitialized" =>
        /\ audio_player = "Samples" <=> ConstructionSucceeds
        /\ audio_player = "Samples" <=> (dir_exists /\ indexed_count > 0)
        /\ ~ConstructionSucceeds =>
              audio_player = (IF audio_device THEN "Synthesized" ELSE "Panicked")
        /\ audio_player = "Synthesized" => GetModeReturns({"piano", "synthesizer"})

\* C8 witness: the fallback was taken on a directory without sample files and
\* get_sound_mode has answered.
C8_Witness ==
    /\ audio_player = "Synthesized"
    /\ dir_exists
    /\ indexed_count = 0
    /\ \E t \in Callers : call[t].op = "get_sound_mode" /\ call[t].pc = "done"

\* C9: once startup has chosen a backend, no command changes it.
C9_BackendFixed ==
    [][audio_player # "Uninitialized" => audio_player' = audio_player]_vars

\* C9 witness: on the sample backend one command has failed and another has
\* succeeded.
C9_Witness ==
    /\ audio_player = "Samples"
    /\ \E t \in Callers :
           call[t].op = "set_sound_mode" /\ call[t].pc = "done" /\ ~call[t].ok
    /\ \E t \in Callers :
           call[t].op = "play_note" /\ call[t].pc = "done" /\ call[t].ok

\* C10: on the sample backend set_volume and set_sound_mode return an error
\* and change nothing: the volume stays 0.8 and get_sound_mode returns
\* "samples".
C10_SampleBackendRejects ==
    [][audio_player = "Samples" =>
        /\ sample_volume = SampleVolume0 /\ sample_volume' = SampleVolume0
        /\ \A t \in Callers :
             /\ ( /\ call[t].pc = "idle"
                  /\ call'[t].op \in {"set_volume", "set_sound_mode"} )
                => /\ call'[t].pc = "done"
                   /\ ~call'[t].ok
                   /\ UNCHANGED <<audio_player, sample_vars, sample_cache,
                                  engine_vars, engine_lock>>
             /\ (call[t].pc = "idle" /\ call'[t].op = "get_sound_mode")
                => /\ call'[t].pc = "done"
                   /\ call'[t].ok
                   /\ call'[t].ret = "samples"
      ]_vars

\* C10 witness: on the sample backend a set_volume has returned its error
\* and a get_sound_mode has answered.
C10_Witness ==
    /\ audio_player = "Samples"
    /\ \E t \in Callers :
           call[t].op = "set_volume" /\ call[t].pc = "done" /\ ~call[t].ok
    /\ \E t \in Callers :
           call[t].op = "get_sound_mode" /\ call[t].pc = "done"


\* A command of caller t that holds the engine's mutex and is about to run.
EngineCommand(t, op) ==
    /\ call[t].pc = "locked"
    /\ call[t].op = op
    /\ call'[t] # call[t]

C13_OnlyKeyPitchShift ==
    \A t \in Callers :
        ( /\ SamplePlayNote(t)
          /\ DOMAIN sample_paths = {<<60, 8>>}
          /\ call[t].target_velocity = 8
          /\ call[t].pc = "done"
          /\ call[t].ok )
        => /\ call[t].pitch = 60
              => /\ call[t].key = <<60, 8>>
                 /\ call[t].semitone_diff = 0
                 /\ call[t].velocity_factor * 10 = sample_volume * GainScale
           /\ call[t].pitch = 61
              => /\ call[t].key = <<60, 8>>
                 /\ call[t].semitone_diff = 1

\* C13 witness: over the index {(60, 8)} one caller has played pitch 60 and
\* the other pitch 61, both at a velocity of layer 8.
C13_Witness ==
    /\ audio_player = "Samples"
    /\ DOMAIN sample_paths = {<<60, 8>>}
    /\ \E t, u \in Callers :
          /\ call[t].op = "play_note" /\ call[u].op = "play_note"
          /\ call[t].pc = "done" /\ call[u].pc = "done"
          /\ call[t].ok /\ call[u].ok
          /\ call[t].target_velocity = 8 /\ call[u].target_velocity = 8
          /\ call[t].pitch = 60 /\ call[u].pitch = 61
          /\ call[u].semitone_diff = 1


\* The positions of a cache that hold the key.
EntriesOf(cache, key) == {i \in 1..Len(cache) : cache[i].key = key}

\* A play_note of caller t whose resolved key has a file that decodes.
DecodablePlayNote(t) ==
    /\ SamplePlayNote(t)
    /\ call[t].key \in DOMAIN sample_paths
    /\ sample_paths[call[t].key] \notin corrupt

\* C14: when callers load the same key, not cached before, at the same time
\* (its file decodes), every call returns Ok, every call holds the same decoded
\* data, and each insertion leaves exactly one cache entry for the key, with
\* that data.
C14_ConcurrentFirstLoads ==
    [][ /\ \A t \in Callers :
              /\ (call[t].pc = "cache_put" /\ call'[t].pc = "play")
                 => /\ Cardinality(EntriesOf(sample_cache', call[t].key)) = 1
                    /\ SamplesOf(sample_cache', call[t].key) = call[t].samples
              /\ (DecodablePlayNote(t)' /\ call'[t].pc \in {"play", "done"})
                 => /\ call'[t].samples =
                           decode_file(sample_paths[call'[t].key])
                    /\ call'[t].pc = "done" => call'[t].ok
        /\ \A t, u \in Callers :
              ( /\ DecodablePlayNote(t)' /\ DecodablePlayNote(u)'
                /\ call'[t].key = call'[u].key
                /\ call'[t].pc \in {"play", "done"}
                /\ call'[u].pc \in {"play", "done"} )
              => call'[t].samples = call'[u].samples
      ]_vars

\* C14 witness: two callers missed the same key, both decoded and inserted
\* it, both returned Ok, and the cache holds the key once.
C14_Witness ==
    \E t, u \in Callers :
        /\ t # u
        /\ DecodablePlayNote(t) /\ DecodablePlayNote(u)
        /\ call[t].key = call[u].key
        /\ call[t].pc = "done" /\ call[u].pc = "done"
        /\ call[t].ok /\ call[u].ok
        /\ ~call[t].from_cache /\ ~call[u].from_cache
        /\ Cardinality(EntriesOf(sample_cache, call[t].key)) = 1
        /\ Len(accessed) = 1


\* The callers that have decoded the key and not yet inserted it.
PendingDecodes(key) ==
    {t \in Callers : SamplePlayNote(t) /\ call[t].pc = "cache_put"
                                       /\ call[t].key = key}

\* C15 as stated: a key is decoded at most once while it is not evicted in
\* between.  Two callers that hold decoded data of one key before either has
\* inserted it are two decodes of a key that was never in the cache in between.
C15_Original ==
    \A key \in DOMAIN sample_paths : Cardinality(PendingDecodes(key)) <= 1

\* C15, amended: a key is decoded only by a call whose own cache lookup
\* missed, once per such call; a lookup that finds the key cached goes on
\* without a decode.  Calls whose lookups missed before the first insertion
\* each decode the key.
C15_DecodeAfterOwnMiss ==
    [][\A t \in Callers :
          /\ (call[t].pc = "cache_check" /\ call'[t] # call[t])
             => IF call[t].key \in CachedKeys(sample_cache)
                THEN call'[t].pc = "play" /\ call'[t].from_cache
                ELSE call'[t].pc = "decode"
          /\ (call'[t].pc = "decode" /\ call[t].pc # "decode")
             => /\ call[t].pc = "cache_check"
                /\ call[t].key \notin CachedKeys(sample_cache)
          /\ (call'[t].pc = "cache_put" /\ call[t].pc # "cache_put")
             => /\ call[t].pc = "decode"
                /\ call[t].samples = ""
          /\ (call[t].pc = "cache_put" /\ call'[t] # call[t])
             => call'[t].pc = "play" /\ ~call'[t].from_cache
      ]_vars

\* C15 witness: two callers have each decoded the same key after a miss and
\* neither has inserted it yet.
C15_Witness ==
    \E t, u \in Callers :
        /\ t # u
        /\ call[t].key = call[u].key
        /\ t \in PendingDecodes(call[t].key)
        /\ u \in PendingDecodes(call[t].key)
        /\ call[t].key \notin CachedKeys(sample_cache)


\* A play_note of caller t whose resolved key has a file that cannot be
\* opened or decoded.
UndecodablePlayNote(t) ==
    /\ SamplePlayNote(t)
    /\ call[t].key \in DOMAIN sample_paths
    /\ \/ sample_paths[call[t].key] \notin files
       \/ sample_paths[call[t].key] \in corrupt

\* C16: a play_note whose file cannot be opened or decoded returns Err, and
\* none of its steps changes the cache's contents or recency order; a
\* play_note whose file decodes returns Ok all the same.
C16_FailedLoadLeavesCache ==
    [][\A t \in Callers :
          /\ (UndecodablePlayNote(t) /\ call'[t] # call[t])
             => /\ UNCHANGED <<sample_cache, accessed>>
                /\ call'[t].pc \in {"decode", "done", "idle"}
                /\ call'[t].pc = "done" => ~call'[t].ok
          /\ (DecodablePlayNote(t)' /\ call'[t].pc = "done")
             => call'[t].ok
      ]_vars

\* C16 witness: with a key in the cache, one play_note has returned the
\* decoder's error and another, loading from disk, has returned Ok.
C16_Witness ==
    \E t, u \in Callers :
        /\ UndecodablePlayNote(t)
        /\ call[t].pc = "done"
        /\ call[t].ret = "Failed to decode audio file"
        /\ DecodablePlayNote(u)
        /\ call[u].pc = "done"
        /\ call[u].ok
        /\ ~call[u].from_cache
        /\ Len(sample_cache) = CacheCapacity


\* C17: no play_note panics, on either backend and whatever its arguments,
\* pitch or velocity above 127 and a zero or negative duration included.
C17_NeverPanics ==
    \A t \in Callers : call[t].pc # "panicked"


\* C18: the engine's mutex is held for short reads and writes of volume and
\* mode only: a play_note that generates its waveform does not hold it, so no
\* other command waits for the mutex of a caller that is generating.
C18_LockFreeSynthesis ==
    \A t, u \in Callers :
        (call[t].pc = "synth" /\ call[u].pc = "lock") => engine_lock # t


\* The state of the engine that a command may change, and the voices.
EngineState ==
    <<audio_player, sample_paths, index_order, indexed_count, sample_cache,
      sample_volume, engine_volume, engine_sound_mode, accessed, voices>>

C20_EnvelopeContinuous ==
    LET env == envelope_of(envelope.mode)
        t == envelope.t
        one == AmpUnit(env)
    IN  ( /\ envelope.applied
          /\ env.attack + env.decay < envelope.duration )
        => /\ t = env.attack
              => /\ attack_amp(t, env) = one
                 /\ envelope.amp = one
           /\ t = env.attack + env.decay
              => /\ 10 * decay_amp(t, env) = env.sustain * one
                 /\ 10 * envelope.amp = env.sustain * one
           /\ t = envelope.duration
              => 10 * envelope.amp = env.sustain * one

\* C20 witness: the piano envelope of a one-second note was evaluated at
\* t = duration and gave the sustain level 0.3.
C20_Witness ==
    /\ envelope.applied
    /\ envelope.mode = "Piano"
    /\ envelope.duration = 1000
    /\ envelope.t = 1000
    /\ 10 * envelope.amp = 3 * AmpUnit(envelope_of("Piano"))


\* C21: for both envelopes and every positive duration the amplitude is 0 at
\* t = 0, 0 at every t >= duration + release, and within [0, 1] at every t.
C21_EnvelopeRange ==
    LET env == envelope_of(envelope.mode)
    IN  envelope.applied
        => /\ envelope.t = 0 => envelope.amp = 0
           /\ envelope.t >= envelope.duration + env.release
              => envelope.amp = 0
           /\ envelope.amp >= 0
           /\ envelope.amp <= AmpUnit(env)

\* C21 witness: the synthesizer envelope of a 50 ms note was evaluated after
\* the end of its release and gave 0.
C21_Witness ==
    /\ envelope.applied
    /\ envelope.mode = "Synthesizer"
    /\ envelope.duration = 50
    /\ envelope.t = 300
    /\ envelope.amp = 0

\* The value that the envelope approaches from the left at t: the formula of
\* the branch that envelope_amp takes just before t, evaluated at t.
envelope_amp_before(t, duration, env) ==
    IF t <= env.attack THEN attack_amp(t, env)
    ELSE IF t <= env.attack + env.decay THEN decay_amp(t, env)
    ELSE IF t <= duration THEN sustain_amp(env)
    ELSE release_amp(t, duration, env)

\* C25: for every positive duration, shorter than attack + decay included,
\* the envelope has no jump: at every t > 0 its value is the value it
\* approaches from the left.
C25_NoJump ==
    ( /\ envelope.applied
      /\ envelope.t > 0 )
    => envelope.amp = envelope_amp_before(envelope.t, envelope.duration,
                                          envelope_of(envelope.mode))


\* C22: generate_melody_with_retry calls the provider at most twice and then
\* returns.  The second call follows a first response that failed the
\* validation, and nothing else; an error of the first call is returned at
\* once; an error of the second call or of its validation is returned, and no
\* call follows.
C22_AtMostOneRetry ==
    [][ /\ melody'.calls <= 2
        /\ melody'.calls > melody.calls
           => \/ melody.pc = "first" /\ melody.calls = 0 /\ melody'.calls = 1
              \/ melody.pc = "retry" /\ melody.calls = 1 /\ melody'.calls = 2
        /\ (melody'.pc = "retry" /\ melody.pc # "retry")
           => /\ melody.pc = "validate"
              /\ ~validate_comprehensive(melody.response, melody.measures,
                                         melody.scale).ok
        /\ (melody.pc = "first" /\ melody'.pc # "validate")
           => /\ melody'.pc = "done"
              /\ ~melody'.ok
        /\ melody.pc \in {"retry", "validate_retry"}
           => /\ melody'.pc \in {"validate_retry", "done"}
              /\ (melody'.pc = "done" /\ melody.pc = "retry") => ~melody'.ok
        /\ melody.pc = "done" => melody' = melody
      ]_vars

\* C22 witness: the first response failed the validation, the provider was
\* called a second time, and the retry's response failed it too.
C22_Witness ==
    /\ melody.pc = "done"
    /\ melody.calls = 2
    /\ ~melody.ok
    /\ melody.err = "Retry also failed validation"

\* The conditions of a returned melody: at least one note; every note starts
\* at 0 or later, lasts 0.1 beats or more and ends within 4 * measures beats;
\* with a scale, every pitch is a note of the scale.
InScale(pitch, scale) ==
    LET root == IF scale.root = "C" THEN 0
                ELSE IF scale.root = "D" THEN 2 ELSE 9
        degrees == IF scale.mode = "major" THEN {0, 2, 4, 5, 7, 9, 11}
                   ELSE {0, 2, 3, 5, 7, 8, 10}
    IN  pitch >= root /\ ((pitch - root) % 12) \in degrees

ValidMelody(notes, measures, scale) ==
    /\ Len(notes) >= 1
    /\ \A i \in 1..Len(notes) :
          /\ notes[i].start_time >= 0
          /\ notes[i].duration >= 10
          /\ notes[i].start_time + notes[i].duration <= 400 * measures
          /\ scale.some => InScale(notes[i].pitch, scale)

\* C23: every response that generate_melody_with_retry returns as Ok is the
\* response of its last provider call and fulfils the validated conditions
\* for the request's measures and scale.
C23_OkIsValidated ==
    (melody.pc = "done" /\ melody.ok)
    => /\ melody.result = melody.response
       /\ validate_comprehensive(melody.result, melody.measures,
                                 melody.scale).ok
       /\ ValidMelody(melody.result, melody.measures, melody.scale)

\* C23 witness: a melody of two notes in D major was returned by the retry.
C23_Witness ==
    /\ melody.pc = "done"
    /\ melody.ok
    /\ melody.calls = 2
    /\ melody.scale.some
    /\ melody.scale.root = "D"
    /\ Len(melody.result) = 2


\* The key stored for a provider in api_keys.json, "" when it has none.
StoredFor(store, provider) ==
    IF as_str(provider) \in DOMAIN store.keys
    THEN store.keys[as_str(provider)].ciphertext.base64.plaintext
    ELSE ""

\* C24: get_api_key(p) returns the key of the last save_api_key(p, k) that
\* no delete_api_key(p) has followed, and None otherwise;
\* list_configured_providers returns the providers that have such a key; a
\* save or delete for one provider leaves the stored entry of every other
\* provider as it was.
C24_KeyStore ==
    [][ /\ key_store'.op = "get"
           => LET p == key_store'.provider
              IN  /\ key_store'.ok
                  /\ key_store'.keys = key_store.keys
                  /\ IF p \in DOMAIN key_store.saved
                     THEN /\ key_store'.some
                          /\ key_store'.value = key_store.saved[p]
                     ELSE ~key_store'.some
        /\ key_store'.op = "list"
           => /\ key_store'.listed = DOMAIN key_store.saved
              /\ key_store'.keys = key_store.keys
        /\ key_store'.op \in {"save", "delete"}
           => /\ key_store'.ok
              /\ \A q \in KeyProviders \ {key_store'.provider} :
                    /\ StoredFor(key_store', q) = StoredFor(key_store, q)
                    /\ (q \in DOMAIN key_store'.saved)
                           = (q \in DOMAIN key_store.saved)
        /\ \A q \in KeyProviders :
              /\ q \in DOMAIN key_store'.saved
                 => StoredFor(key_store', q) = key_store'.saved[q]
              /\ q \notin DOMAIN key_store'.saved
                 => StoredFor(key_store', q) = ""
      ]_vars

\* C24 witness: after two saves for OpenAI and a save and a delete for
\* Gemini, get_api_key(OpenAI) has returned the second key.
C24_Witness ==
    /\ key_store.op = "get"
    /\ key_store.provider = "OpenAI"
    /\ key_store.some
    /\ key_store.value = "sk-2"
    /\ DOMAIN key_store.saved = {"OpenAI", "Anthropic"}
    /\ key_store.keys["openai"].nonce = base64_encode("n2")


\* C26: once index_samples has succeeded, every key of the index has a pitch
\* in 21..108 and a velocity layer in 1..16, its path is one file of the
\* samples directory named after the key, the number of keys is the count
\* index_samples kept, and a key whose "{Note}v{L}.wav" file exists maps to
\* that file even when "{Note}_v{L}.wav" exists too.
C26_IndexWellFormed ==
    audio_player = "Samples"
    => /\ indexed_count > 0
       /\ Cardinality(DOMAIN sample_paths) = indexed_count
       /\ \A k \in DOMAIN sample_paths :
             LET names == possible_names(midi_to_note_name(k[1]), k[2])
             IN  /\ k[1] \in FirstIndexedPitch..LastIndexedPitch
                 /\ k[2] \in 1..16
                 /\ sample_paths[k] \in files
                 /\ sample_paths[k] \in {names[1], names[2]}
                 /\ names[1] \in files => sample_paths[k] = names[1]

\* C26 witness: both spellings of C4 layer 8 exist, with two more files, and
\* the index holds three entries, C4 layer 8 under "C4v8.wav".
C26_Witness ==
    /\ audio_player = "Samples"
    /\ files = {"C4v8.wav", "C4_v8.wav", "D4v8.wav", "E4_v4.wav"}
    /\ indexed_count = 3
    /\ sample_paths[<<60, 8>>] = "C4v8.wav"
    /\ sample_paths[<<64, 4>>] = "E4_v4.wav"


\* A playNote of the sample backend whose key has been selected.
Selected(t) ==
    /\ audio_player = "Samples"
    /\ call[t].op = "play_note"
    /\ call[t].pc # "idle"
    /\ call[t].key \in DOMAIN sample_paths

\* The first position of the iteration order holding a key of minimal
\* distance to the request.
FirstNearest(order, pitch, velocity) ==
    CHOOSE i \in 1..Len(order) :
        /\ \A j \in 1..Len(order) :
               WeightedDistance(pitch, velocity, order[i])
               <= WeightedDistance(pitch, velocity, order[j])
        /\ \A j \in 1..(i - 1) :
               WeightedDistance(pitch, velocity, order[i])
               < WeightedDistance(pitch, velocity, order[j])

\* C27: the index and its iteration order stay as index_samples left them;
\* two playNote calls with the same pitch and velocity hold the same key,
\* whatever the other callers did between the two selections; and a key
\* found by the scan is the first key of minimal distance in the iteration
\* order.
C27_SelectionDeterministic ==
    [][ /\ audio_player = "Samples"
           => /\ sample_paths' = sample_paths
              /\ index_order' = index_order
        /\ \A t \in Callers :
              Selected(t)'
              => /\ \A u \in Callers :
                       ( /\ Selected(u)'
                         /\ call'[u].pitch = call'[t].pitch
                         /\ call'[u].velocity = call'[t].velocity )
                       => call'[u].key = call'[t].key
                 /\ call'[t].scanned
                    => call'[t].key =
                           index_order'[FirstNearest(index_order',
                                            call'[t].pitch,
                                            call'[t].target_velocity)]
      ]_vars

\* C27 witness: pitch 61 lies between the indexed C4 and D4 of layer 8, at
\* equal distance; both callers asked for it, one has played and the other
\* has just selected, and both hold the key met first, which is not the key
\* of the lower pitch.
C27_Witness ==
    /\ Selected(1) /\ Selected(2)
    /\ call[1].pc = "done" /\ call[2].pc = "cache_check"
    /\ call[1].pitch = 61 /\ call[2].pitch = 61
    /\ call[1].velocity = 64 /\ call[2].velocity = 64
    /\ call[1].scanned /\ call[2].scanned
    /\ DOMAIN sample_paths = {<<60, 8>>, <<62, 8>>}
    /\ index_order = <<(<<62, 8>>), (<<60, 8>>)>>
    /\ call[1].key = <<62, 8>>
    /\ call[2].key = <<62, 8>>


\* C28: every key of the sample cache is a key of the sample index.
C28_CachedKeysIndexed ==
    CachedKeys(sample_cache) \subseteq DOMAIN sample_paths

\* C28 witness: the cache is full of indexed keys, one of them stored by a
\* playNote for pitch 61, which is not indexed, while the other caller is
\* about to store a third key.
C28_Witness ==
    /\ Len(sample_cache) = CacheCapacity
    /\ Cardinality(DOMAIN sample_paths) > CacheCapacity
    /\ call[1].op = "play_note" /\ call[1].pc = "done" /\ call[1].ok
    /\ call[1].pitch = 61
    /\ <<61, call[1].target_velocity>> \notin DOMAIN sample_paths
    /\ call[1].key \in CachedKeys(sample_cache)
    /\ call[2].pc = "cache_put"
    /\ call[2].key \notin CachedKeys(sample_cache)


\* The locks caller t holds: the engine's mutex; the cache's mutex is taken
\* and released within load_cache_check and load_cache_put.
HeldLocks(t) == IF engine_lock = t THEN {"audio_engine"} ELSE {}

\* C29: a command holds at most one lock at a time and none once it has
\* returned, and under fair scheduling every command that was issued
\* returns.
C29_NoDeadlock ==
    /\ [](\A t \in Callers :
            /\ Cardinality(HeldLocks(t)) <= 1
            /\ call[t].pc \in {"idle", "done"} => HeldLocks(t) = {})
    /\ \A t \in Callers : (call[t].pc # "idle") ~> (call[t].pc = "done")


\* C30: a play_note of the synthesizer backend reads its volume and its
\* timbre at one instant, the mode of the envelope it chose before is the
\* engine's mode at that instant too, and the note is rendered with these
\* values, whatever set_volume and set_sound_mode the other callers issue.
C30_ConsistentSnapshot ==
    [][ \A t \in Callers :
          /\ (call[t].pc = "envelope" /\ call'[t].pc = "synth")
             => /\ call'[t].snap_volume = engine_volume
                /\ call'[t].snap_mode = engine_sound_mode
                /\ call'[t].env_mode = engine_sound_mode
          /\ (call[t].pc = "synth" /\ call'[t].pc = "done")
             => /\ call'[t].env_mode = call'[t].snap_mode
                /\ call'[t].snap_volume = call[t].snap_volume
                /\ call'[t].snap_mode = call[t].snap_mode
                /\ call'[t].total_samples =
                       total_samples(call[t].duration,
                                     envelope_of(call[t].snap_mode))
      ]_vars

\* C30 witness: a note was rendered as a synthesizer note at volume 0.5
\* while the other caller waits for the mutex with a set_sound_mode back to
\* the piano, after the volume and the mode had both been changed.
C30_Witness ==
    /\ call[1].op = "play_note" /\ call[1].pc = "done" /\ call[1].ok
    /\ call[1].snap_mode = "Synthesizer"
    /\ call[1].env_mode = "Synthesizer"
    /\ call[1].snap_volume = 5
    /\ call[1].total_samples = total_samples(1000, envelope_of("Synthesizer"))
    /\ call[2].op = "set_sound_mode" /\ call[2].mode = "piano"
    /\ call[2].pc = "lock"

=============================================================================
